---- MODULE Spec2Model ----
(***************************************************************************)
(* Batch assembly and decomposition of ocf_datapipes:                      *)
(*   ocf_datapipes/batch/merge_numpy_examples_to_batch.py                  *)
(*                                                                         *)
(* A numpy array is a record [shape, data]: its shape and its elements in  *)
(* row-major order, so a scalar is [shape |-> <<>>, data |-> <<v>>].       *)
(* A Python dict is a record [keys, val]: the keys in insertion order and  *)
(* the mapping.  A call ends in Ok(value) or in Raise(exception).          *)
(***************************************************************************)
EXTENDS Integers, Sequences, FiniteSets

VARIABLES
    dict_list,     \* the argument handed to stack_np_examples_into_batch
    batch,         \* the argument handed to unstack_np_batch_into_examples
    stacked,       \* outcome of stack_np_examples_into_batch(dict_list)
    samples,       \* outcome of unstack_np_batch_into_examples(batch)
    pc,            \* position of the caller of the two functions
    n_examples_per_batch,  \* MergeNumpyExamplesToBatchIterDataPipe: configuration
    source_datapipe,       \* the finite upstream, a sequence of examples
    src_pos,               \* number of upstream examples consumed so far
    np_examples,           \* the generator's buffer
    emitted,               \* the batches yielded so far, in order
    gen,                   \* the generator: "created", "suspended", "exhausted", "raised"
    source_dp,             \* ExtendTimestepsToFutureIterDataPipe: the upstream batches
    forecast_duration,     \* its configuration, in seconds
    sample_period_duration,
    num_future_timesteps,  \* computed by its __init__
    select_dp,             \* SelectPVSystemsOnCapacityIterDataPipe: the instance's attributes
    datapipe               \* the class of the datapipe that was built, or "none"

fnVars == <<dict_list, batch, stacked, samples, pc>>
dpVars == <<n_examples_per_batch, source_datapipe, src_pos, np_examples, emitted, gen>>
extVars == <<source_dp, forecast_duration, sample_period_duration, num_future_timesteps>>
vars == <<dict_list, batch, stacked, samples, pc,
          n_examples_per_batch, source_datapipe, src_pos, np_examples, emitted, gen,
          source_dp, forecast_duration, sample_period_duration, num_future_timesteps,
          select_dp, datapipe>>

(***************************************************************************)
(* Bounds of the model.                                                    *)
(***************************************************************************)
MaxLen == 2        \* examples in one dict_list
MaxUpstream == 10  \* examples in the upstream of the accumulating datapipe
MaxN == 4          \* largest n_examples_per_batch

(***************************************************************************)
(* Outcomes of a call.                                                     *)
(***************************************************************************)
NotCalled == [tag |-> "none"]
Ok(v) == [tag |-> "ok", val |-> v]
\* An exception of class exc; log is what the code wrote to the logger
\* before raising it.
RaiseLogged(exc, log) == [tag |-> "raise", exc |-> exc, log |-> log]
Raise(exc) == RaiseLogged(exc, <<>>)
IsOk(r) == r.tag = "ok"
IsRaise(r) == r.tag = "raise"

Range(s) == {s[i] : i \in DOMAIN s}

(***************************************************************************)
(* numpy arrays.                                                           *)
(***************************************************************************)
RECURSIVE Prod(_)
Prod(shape) == IF shape = <<>> THEN 1 ELSE Head(shape) * Prod(Tail(shape))

Scalar(v) == [shape |-> <<>>, data |-> <<v>>]
\* The 1-D array [0, 1, ..., n-1].
Arange(n) == [shape |-> <<n>>, data |-> [i \in 1..n |-> i - 1]]

RECURSIVE Concat(_)
Concat(seqs) == IF seqs = <<>> THEN <<>> ELSE Head(seqs) \o Concat(Tail(seqs))

\* np.stack laying the arrays out from the last to the first.
NpStackValueReversed(arrays) ==
    [shape |-> <<Len(arrays)>> \o arrays[1].shape,
     data |-> Concat([j \in DOMAIN arrays |-> arrays[Len(arrays) + 1 - j].data])]

\* np.stack(arrays): a new leading axis; every array must have the same shape.
NpStackValue(arrays) ==
    [shape |-> <<Len(arrays)>> \o arrays[1].shape,
     data |-> Concat([j \in DOMAIN arrays |-> arrays[j].data])]

NpStack(arrays) ==
    IF arrays = <<>> THEN Raise("ValueError")
    ELSE IF \E j \in DOMAIN arrays : arrays[j].shape # arrays[1].shape
         THEN Raise("ValueError")
         ELSE Ok(NpStackValue(arrays))

\* a.shape[0]
NpShape0(a) == IF a.shape = <<>> THEN Raise("IndexError") ELSE Ok(a.shape[1])

\* a[i] for an integer i >= 0 (Python counts from 0).
NpIndexValue(a, i) ==
    LET sz == Prod(Tail(a.shape))
    IN [shape |-> Tail(a.shape), data |-> SubSeq(a.data, i * sz + 1, (i + 1) * sz)]

NpIndex(a, i) ==
    IF a.shape = <<>> \/ i >= a.shape[1] THEN Raise("IndexError")
    ELSE Ok(NpIndexValue(a, i))

(***************************************************************************)
(* Python dicts, kept in insertion order.                                  *)
(***************************************************************************)
EmptyDict == [keys |-> <<>>, val |-> <<>>]
HasKey(d, k) == k \in DOMAIN d.val
DictSet(d, k, v) ==
    [keys |-> IF HasKey(d, k) THEN d.keys ELSE Append(d.keys, k),
     val |-> [x \in (DOMAIN d.val) \cup {k} |-> IF x = k THEN v ELSE d.val[x]]]
\* d[k]
DictGet(d, k) == IF HasKey(d, k) THEN Ok(d.val[k]) ELSE Raise("KeyError")

(***************************************************************************)
(* Keys: the members of the enums BatchKey and NWPBatchKey.  KeyName gives *)
(* a member's .name as its underscore-separated words.                     *)
(***************************************************************************)
BatchKey_pv == "BatchKey.pv"
BatchKey_pv_t0_idx == "BatchKey.pv_t0_idx"
BatchKey_nwp == "BatchKey.nwp"
NWPBatchKey_nwp == "NWPBatchKey.nwp"
NWPBatchKey_nwp_channel_names == "NWPBatchKey.nwp_channel_names"
BatchKey_pv_time_utc == "BatchKey.pv_time_utc"
BatchKey_hrvsatellite_time_utc == "BatchKey.hrvsatellite_time_utc"
NWPBatchKey_nwp_target_time_utc == "NWPBatchKey.nwp_target_time_utc"

KeyName(k) ==
    CASE k = BatchKey_pv -> <<"pv">>
      [] k = BatchKey_pv_t0_idx -> <<"pv", "t0", "idx">>
      [] k = BatchKey_nwp -> <<"nwp">>
      [] k = NWPBatchKey_nwp -> <<"nwp">>
      [] k = NWPBatchKey_nwp_channel_names -> <<"nwp", "channel", "names">>
      [] k = BatchKey_pv_time_utc -> <<"pv", "time", "utc">>
      [] k = BatchKey_hrvsatellite_time_utc -> <<"hrvsatellite", "time", "utc">>
      [] k = NWPBatchKey_nwp_target_time_utc -> <<"nwp", "target", "time", "utc">>

\* str.endswith
EndsWith(name, suffix) ==
    /\ Len(name) >= Len(suffix)
    /\ SubSeq(name, Len(name) - Len(suffix) + 1, Len(name)) = suffix

key_is_constant(batch_key) ==
    \/ EndsWith(KeyName(batch_key), <<"t0", "idx">>)
    \/ batch_key = NWPBatchKey_nwp_channel_names

(***************************************************************************)
(* stack_data_list and stack_np_examples_into_batch.                       *)
(***************************************************************************)
\* What lines 32-35 write to the logger when np.stack fails.
StackLog(data_list, batch_key, exc) ==
    << [level |-> "debug", key |-> batch_key],
       [level |-> "debug", shapes |-> [j \in DOMAIN data_list |-> data_list[j].shape]],
       [level |-> "error", exc |-> exc] >>

\* stack_data_list taking a constant key's value from the last example.
stack_data_list_last(data_list, batch_key) ==
    IF key_is_constant(batch_key)
    THEN Ok(data_list[Len(data_list)])
    ELSE LET r == NpStack(data_list)
         IN IF IsOk(r) THEN r
            ELSE RaiseLogged(r.exc, StackLog(data_list, batch_key, r.exc))

\* stack_data_list that logs a failed np.stack and carries on with the first
\* example's value instead of raising.
stack_data_list_swallow(data_list, batch_key) ==
    IF key_is_constant(batch_key)
    THEN Ok(data_list[1])
    ELSE LET r == NpStack(data_list)
         IN IF IsOk(r) THEN r ELSE Ok(data_list[1])

stack_data_list(data_list, batch_key) ==
    IF key_is_constant(batch_key)
    THEN Ok(data_list[1])
    ELSE LET r == NpStack(data_list)
         IN IF IsOk(r) THEN r
            ELSE RaiseLogged(r.exc, StackLog(data_list, batch_key, r.exc))

\* [d[batch_key] for d in dict_list if batch_key in d]
ColumnLenient(dl, batch_key) ==
    LET having == SelectSeq(dl, LAMBDA d : HasKey(d, batch_key))
    IN Ok([j \in DOMAIN having |-> having[j].val[batch_key]])

\* [d[batch_key] for d in dict_list]
Column(dl, batch_key) ==
    IF \E j \in DOMAIN dl : ~HasKey(dl[j], batch_key)
    THEN Raise("KeyError")
    ELSE Ok([j \in DOMAIN dl |-> dl[j].val[batch_key]])

\* [d[BatchKey.nwp][nwp_source][nwp_batch_key] for d in dict_list]
NwpColumn(dl, nwp_source, nwp_batch_key) ==
    IF \E j \in DOMAIN dl :
          \/ ~HasKey(dl[j], BatchKey_nwp)
          \/ ~HasKey(dl[j].val[BatchKey_nwp], nwp_source)
          \/ ~HasKey(dl[j].val[BatchKey_nwp].val[nwp_source], nwp_batch_key)
    THEN Raise("KeyError")
    ELSE Ok([j \in DOMAIN dl |->
                dl[j].val[BatchKey_nwp].val[nwp_source].val[nwp_batch_key]])

\* Lines 82-86: the loop over nwp_batch_keys, from position k on.
RECURSIVE StackNwpSource(_, _, _, _, _)
StackNwpSource(dl, nwp_source, nwp_batch_keys, k, nwp_source_batch) ==
    IF k > Len(nwp_batch_keys) THEN Ok(nwp_source_batch)
    ELSE LET nwp_batch_key == nwp_batch_keys[k]
             col == NwpColumn(dl, nwp_source, nwp_batch_key)
             r == IF IsOk(col) THEN stack_data_list(col.val, nwp_batch_key) ELSE col
         IN IF IsRaise(r) THEN r
            ELSE StackNwpSource(dl, nwp_source, nwp_batch_keys, k + 1,
                                DictSet(nwp_source_batch, nwp_batch_key, r.val))

\* Lines 79-88: the loop over nwp_sources, from position s on.
RECURSIVE StackNwpSources(_, _, _, _, _)
StackNwpSources(dl, nwp_sources, nwp_batch_keys, s, nwp_batch) ==
    IF s > Len(nwp_sources) THEN Ok(nwp_batch)
    ELSE LET r == StackNwpSource(dl, nwp_sources[s], nwp_batch_keys, 1, EmptyDict)
         IN IF IsRaise(r) THEN r
            ELSE StackNwpSources(dl, nwp_sources, nwp_batch_keys, s + 1,
                                 DictSet(nwp_batch, nwp_sources[s], r.val))

\* StackNwpBatchKeys reading the keys of the last source (nwp_sources[-1]).
StackNwpBatchKeysLast(dl) ==
    LET nwp_sources == dl[1].val[BatchKey_nwp].keys
    IN IF nwp_sources = <<>> THEN Raise("IndexError")
       ELSE Ok(dl[1].val[BatchKey_nwp].val[nwp_sources[Len(nwp_sources)]].keys)

\* Line 78: the secondary keys are read from the first source of the first
\* example, once, for every source.
StackNwpBatchKeys(dl) ==
    LET nwp_sources == dl[1].val[BatchKey_nwp].keys
    IN IF nwp_sources = <<>> THEN Raise("IndexError")
       ELSE Ok(dl[1].val[BatchKey_nwp].val[nwp_sources[1]].keys)

\* Lines 73-90: the branch for BatchKey.nwp.
StackNwp(dl) ==
    LET nwp_sources == dl[1].val[BatchKey_nwp].keys
        nwp_batch_keys == StackNwpBatchKeys(dl)
    IN IF IsRaise(nwp_batch_keys) THEN nwp_batch_keys
       ELSE StackNwpSources(dl, nwp_sources, nwp_batch_keys.val, 1, EmptyDict)

\* Lines 71-96: the loop over batch_keys, from position k on.
RECURSIVE StackKeys(_, _, _, _)
StackKeys(dl, batch_keys, k, b) ==
    IF k > Len(batch_keys) THEN Ok(b)
    ELSE LET batch_key == batch_keys[k]
             col == Column(dl, batch_key)
             r == IF batch_key = BatchKey_nwp THEN StackNwp(dl)
                  ELSE IF IsOk(col) THEN stack_data_list(col.val, batch_key)
                  ELSE col
         IN IF IsRaise(r) THEN r
            ELSE StackKeys(dl, batch_keys, k + 1, DictSet(b, batch_key, r.val))

\* stack_np_examples_into_batch returning an empty batch for no examples.
stack_np_examples_into_batch_empty_ok(dl) ==
    IF dl = <<>> THEN Ok(EmptyDict)
    ELSE StackKeys(dl, dl[1].keys, 1, EmptyDict)

stack_np_examples_into_batch(dl) ==
    IF dl = <<>> THEN Raise("IndexError")      \* dict_list[0]
    ELSE StackKeys(dl, dl[1].keys, 1, EmptyDict)

(***************************************************************************)
(* extract_data_from_batch and unstack_np_batch_into_examples.             *)
(***************************************************************************)
extract_data_from_batch(data, batch_key, index_num) ==
    IF key_is_constant(batch_key) THEN Ok(data) ELSE NpIndex(data, index_num)

\* next(filter(lambda x: not _key_is_constant(x), keys))
RECURSIVE FirstNonConstant(_, _)
FirstNonConstant(keys, k) ==
    IF k > Len(keys) THEN Raise("StopIteration")
    ELSE IF ~key_is_constant(keys[k]) THEN Ok(keys[k])
    ELSE FirstNonConstant(keys, k + 1)

\* BatchSize taking 0 for a batch without a non-constant key.
BatchSizeDefaultZero(b) ==
    LET non_constant_key == FirstNonConstant(b.keys, 1)
    IN IF IsRaise(non_constant_key) THEN Ok(0)
       ELSE IF non_constant_key.val = BatchKey_nwp
       THEN LET nwp == b.val[BatchKey_nwp]
            IN IF nwp.keys = <<>> THEN Ok(0)
               ELSE LET nwp_source == nwp.keys[1]
                        non_constant_nwp_key ==
                            FirstNonConstant(nwp.val[nwp_source].keys, 1)
                    IN IF IsRaise(non_constant_nwp_key) THEN Ok(0)
                       ELSE NpShape0(nwp.val[nwp_source].val[non_constant_nwp_key.val])
       ELSE NpShape0(b.val[non_constant_key.val])

\* Lines 109-121: the batch size.
BatchSize(b) ==
    LET non_constant_key == FirstNonConstant(b.keys, 1)
    IN IF IsRaise(non_constant_key) THEN non_constant_key
       ELSE IF non_constant_key.val = BatchKey_nwp
       THEN LET nwp == b.val[BatchKey_nwp]
            IN IF nwp.keys = <<>> THEN Raise("StopIteration")   \* next(iter(...))
               ELSE LET nwp_source == nwp.keys[1]
                        non_constant_nwp_key ==
                            FirstNonConstant(nwp.val[nwp_source].keys, 1)
                    IN IF IsRaise(non_constant_nwp_key) THEN non_constant_nwp_key
                       ELSE NpShape0(nwp.val[nwp_source].val[non_constant_nwp_key.val])
       ELSE NpShape0(b.val[non_constant_key.val])

\* UnstackNwpField that keeps the whole field when it cannot be indexed at i.
UnstackNwpFieldLenient(b, nwp_source, nwp_batch_key, i) ==
    LET src == b.val[BatchKey_nwp].val[nwp_source]
    IN IF ~HasKey(src, nwp_batch_key) THEN Raise("KeyError")
       ELSE LET r == NpIndex(src.val[nwp_batch_key], i)
            IN IF IsRaise(r) \/ key_is_constant(nwp_batch_key)
               THEN Ok(src.val[nwp_batch_key])
               ELSE r

\* Lines 139-146: one secondary field of one source in sample i.  Line 139
\* indexes the field at i whatever the key is; line 142 then overwrites the
\* entry with extract_data_from_batch.
UnstackNwpField(b, nwp_source, nwp_batch_key, i) ==
    LET src == b.val[BatchKey_nwp].val[nwp_source]
    IN IF ~HasKey(src, nwp_batch_key) THEN Raise("KeyError")
       ELSE LET first == NpIndex(src.val[nwp_batch_key], i)
            IN IF IsRaise(first) THEN first
               ELSE extract_data_from_batch(src.val[nwp_batch_key], nwp_batch_key, i)

\* Lines 138-146: the loop over nwp_batch_keys, from position k on.
RECURSIVE UnstackNwpSource(_, _, _, _, _, _)
UnstackNwpSource(b, nwp_source, nwp_batch_keys, i, k, nwp_source_batch) ==
    IF k > Len(nwp_batch_keys) THEN Ok(nwp_source_batch)
    ELSE LET r == UnstackNwpField(b, nwp_source, nwp_batch_keys[k], i)
         IN IF IsRaise(r) THEN r
            ELSE UnstackNwpSource(b, nwp_source, nwp_batch_keys, i, k + 1,
                                  DictSet(nwp_source_batch, nwp_batch_keys[k], r.val))

\* Lines 135-148: the loop over nwp_sources, from position s on.
RECURSIVE UnstackNwpSources(_, _, _, _, _, _)
UnstackNwpSources(b, nwp_sources, nwp_batch_keys, i, s, nwp_batch) ==
    IF s > Len(nwp_sources) THEN Ok(nwp_batch)
    ELSE LET r == UnstackNwpSource(b, nwp_sources[s], nwp_batch_keys, i, 1, EmptyDict)
         IN IF IsRaise(r) THEN r
            ELSE UnstackNwpSources(b, nwp_sources, nwp_batch_keys, i, s + 1,
                                   DictSet(nwp_batch, nwp_sources[s], r.val))

\* Lines 129-150: the branch for BatchKey.nwp in sample i.
UnstackNwp(b, i) ==
    LET nwp == b.val[BatchKey_nwp]
    IN IF nwp.keys = <<>> THEN Raise("IndexError")     \* nwp_sources[0]
       ELSE UnstackNwpSources(b, nwp.keys, nwp.val[nwp.keys[1]].keys, i, 1, EmptyDict)

\* Lines 152-157: the branch for every other key.  The loop variable is
\* `key`; the branch reads `batch_key`, a name that is bound neither in the
\* function nor in the module, so evaluating it raises NameError.
UnstackPrimary(b, key, i) == Raise("NameError")

\* Lines 127-157: the loop over batch_keys in sample i, from position k on.
RECURSIVE UnstackKeys(_, _, _, _)
UnstackKeys(b, i, k, sample) ==
    IF k > Len(b.keys) THEN Ok(sample)
    ELSE LET key == b.keys[k]
             r == IF key = BatchKey_nwp THEN UnstackNwp(b, i)
                  ELSE UnstackPrimary(b, key, i)
         IN IF IsRaise(r) THEN r
            ELSE UnstackKeys(b, i, k + 1, DictSet(sample, key, r.val))

\* Lines 123-160: the loop over range(batch_size), from i on.
RECURSIVE UnstackSamples(_, _, _, _)
UnstackSamples(b, batch_size, i, acc) ==
    IF i >= batch_size THEN Ok(acc)
    ELSE LET r == UnstackKeys(b, i, 1, EmptyDict)
         IN IF IsRaise(r) THEN r
            ELSE UnstackSamples(b, batch_size, i + 1, Append(acc, r.val))

unstack_np_batch_into_examples(b) ==
    LET batch_size == BatchSize(b)
    IN IF IsRaise(batch_size) THEN batch_size
       ELSE UnstackSamples(b, batch_size.val, 0, <<>>)

(***************************************************************************)
(* The inputs of the two functions.  The examples of one dict_list share   *)
(* one layout: the primary keys in order, the nwp sources in order, and    *)
(* the secondary keys of each source in order.                             *)
(***************************************************************************)
ExampleValues == {Scalar(0), Scalar(1), Arange(1)}     \* fields of an example
BatchValues == ExampleValues \cup {Arange(2)}          \* fields of a batch
LeafCounts == 0..2          \* array-valued fields in one container
NwpOnlyLeafCounts == 0..3   \* the same, when BatchKey.nwp is the only key
PrimaryKeys == {BatchKey_pv, BatchKey_pv_t0_idx, BatchKey_nwp}
SecondaryKeys == {NWPBatchKey_nwp, NWPBatchKey_nwp_channel_names}
SourceNames == <<"ukv", "ecmwf">>

\* The orderings of the subsets of S.
OrderingsOf(S) ==
    UNION {{q \in [1..n -> S] : \A a, c \in 1..n : a # c => q[a] # q[c]}
           : n \in 0..Cardinality(S)}

SourceOrders == {SubSeq(SourceNames, 1, n) : n \in 0..Len(SourceNames)}

Layouts ==
    {[keys |-> ks, srcs |-> ss, skeys |-> sk] :
        ks \in OrderingsOf(PrimaryKeys), ss \in SourceOrders,
        sk \in [Range(SourceNames) -> OrderingsOf(SecondaryKeys)]}

\* The array-valued fields of a layout: <<key>> or <<source, secondary key>>.
Leaves(L) ==
    {<<k>> : k \in Range(L.keys) \ {BatchKey_nwp}}
    \cup (IF BatchKey_nwp \in Range(L.keys)
          THEN {<<s, nk>> : s \in Range(L.srcs), nk \in SecondaryKeys}
          ELSE {})

LeavesOf(L) ==
    {lf \in Leaves(L) : Len(lf) = 2 => lf[2] \in Range(L.skeys[lf[1]])}

UsedLayouts ==
    {L \in Layouts :
        /\ \/ Cardinality(LeavesOf(L)) \in LeafCounts
           \/ /\ L.keys = <<BatchKey_nwp>>
              /\ Cardinality(LeavesOf(L)) \in NwpOnlyLeafCounts
        /\ BatchKey_nwp \notin Range(L.keys) => L.srcs = <<>>
        /\ \A s \in Range(SourceNames) \ Range(L.srcs) : L.skeys[s] = <<>>}

\* The container of layout L whose fields hold the values f.
Build(L, f) ==
    [keys |-> L.keys,
     val |-> [k \in Range(L.keys) |->
                IF k = BatchKey_nwp
                THEN [keys |-> L.srcs,
                      val |-> [s \in Range(L.srcs) |->
                                 [keys |-> L.skeys[s],
                                  val |-> [nk \in Range(L.skeys[s]) |-> f[<<s, nk>>]]]]]
                ELSE f[<<k>>]]]

ExamplesOf(L) == {Build(L, f) : f \in [LeavesOf(L) -> ExampleValues]}

DictLists == UNION {[1..n -> ExamplesOf(L)] : L \in UsedLayouts, n \in 0..MaxLen}

\* The batches a caller hands to the split without having stacked them.
GivenBatches ==
    UNION {{Build(L, f) : f \in [LeavesOf(L) -> BatchValues]} : L \in UsedLayouts}

(***************************************************************************)
(* A caller of stack_np_examples_into_batch and                            *)
(* unstack_np_batch_into_examples.                                         *)
(***************************************************************************)
NoBatch == [keys |-> <<>>, val |-> <<>>, none |-> TRUE]

DpIdle ==
    /\ n_examples_per_batch = 1
    /\ source_datapipe = <<>>
    /\ src_pos = 0
    /\ np_examples = <<>>
    /\ emitted = <<>>
    /\ gen = "idle"

\* No ExtendTimestepsToFutureIterDataPipe and no
\* SelectPVSystemsOnCapacityIterDataPipe has been built.
NoObject == [none |-> TRUE]

ExtIdle ==
    /\ source_dp = <<>>
    /\ forecast_duration = 0
    /\ sample_period_duration = 1
    /\ num_future_timesteps = 0

SelIdle == select_dp = NoObject

InitFn ==
    /\ \/ pc = "start" /\ dict_list \in DictLists /\ batch = NoBatch
       \/ pc = "given" /\ dict_list = <<>> /\ batch \in GivenBatches
    /\ stacked = NotCalled
    /\ samples = NotCalled
    /\ DpIdle
    /\ ExtIdle
    /\ SelIdle
    /\ datapipe = "none"

\* A call that pops the first example off dict_list.
CallStackConsumes ==
    /\ pc = "start"
    /\ stacked' = stack_np_examples_into_batch(dict_list)
    /\ batch' = IF IsOk(stacked') THEN stacked'.val ELSE NoBatch
    /\ pc' = "stacked"
    /\ dict_list' = IF dict_list = <<>> THEN dict_list ELSE Tail(dict_list)
    /\ UNCHANGED samples
    /\ UNCHANGED dpVars
    /\ UNCHANGED <<extVars, select_dp, datapipe>>

\* batch = stack_np_examples_into_batch(dict_list): the function reads
\* dict_list and its examples and assigns to none of them.
CallStack ==
    /\ pc = "start"
    /\ stacked' = stack_np_examples_into_batch(dict_list)
    /\ batch' = IF IsOk(stacked') THEN stacked'.val ELSE NoBatch
    /\ pc' = "stacked"
    /\ UNCHANGED <<dict_list, samples>>
    /\ UNCHANGED dpVars
    /\ UNCHANGED <<extVars, select_dp, datapipe>>

\* unstack_np_batch_into_examples(batch) on the batch just stacked
CallUnstack ==
    /\ pc = "stacked"
    /\ IsOk(stacked)
    /\ samples' = unstack_np_batch_into_examples(batch)
    /\ pc' = "unstacked"
    /\ UNCHANGED <<dict_list, batch, stacked>>
    /\ UNCHANGED dpVars
    /\ UNCHANGED <<extVars, select_dp, datapipe>>

\* unstack_np_batch_into_examples on a batch that did not come from the
\* stack.
CallUnstackOnBatch ==
    /\ pc = "given"
    /\ samples' = unstack_np_batch_into_examples(batch)
    /\ pc' = "split"
    /\ UNCHANGED <<dict_list, batch, stacked>>
    /\ UNCHANGED dpVars
    /\ UNCHANGED <<extVars, select_dp, datapipe>>

NextFn == CallStack \/ CallUnstack \/ CallUnstackOnBatch

SpecFn == InitFn /\ [][NextFn]_vars

\* The same caller, handed also lists whose two examples differ in their
\* layout: in their keys, sources or secondary keys, or in the order of them.
MixedLayouts == {L \in UsedLayouts : Cardinality(LeavesOf(L)) \in LeafCounts}
LayoutExample(L) == Build(L, [lf \in LeavesOf(L) |-> Scalar(0)])
MixedLists == {<<LayoutExample(L), LayoutExample(K)>> : L, K \in MixedLayouts}

InitMixed ==
    \/ InitFn
    \/ /\ pc = "start"
       /\ dict_list \in MixedLists
       /\ batch = NoBatch
       /\ stacked = NotCalled
       /\ samples = NotCalled
       /\ DpIdle
       /\ ExtIdle
       /\ SelIdle
       /\ datapipe = "none"

SpecMixed == InitMixed /\ [][NextFn]_vars

(***************************************************************************)
(* MergeNumpyExamplesToBatchIterDataPipe: __init__ and the generator       *)
(* __iter__ returns.  The upstream is a finite sequence; its element at    *)
(* position p is an example with the one field BatchKey.pv, holding either *)
(* the scalar p or a 1-D array (a shape that does not stack with scalars). *)
(***************************************************************************)
PvExample(v) == [keys |-> <<BatchKey_pv>>, val |-> [k \in {BatchKey_pv} |-> v]]

Upstreams ==
    UNION {{[p \in 1..n |-> PvExample(IF p \in odd THEN Arange(1) ELSE Scalar(p))]
            : odd \in SUBSET (1..n)} : n \in 0..MaxUpstream}

ConfiguredN == (-1)..MaxN

InitDp ==
    /\ n_examples_per_batch \in ConfiguredN      \* __init__ stores it as given
    /\ source_datapipe \in Upstreams
    /\ src_pos = 0
    /\ np_examples = <<>>
    /\ emitted = <<>>
    /\ gen = "created"
    /\ dict_list = <<>>
    /\ batch = NoBatch
    /\ stacked = NotCalled
    /\ samples = NotCalled
    /\ pc = "idle"
    /\ ExtIdle
    /\ SelIdle
    /\ datapipe = "MergeNumpyExamplesToBatch"

\* Lines 205-209 from the top of the for loop until the generator yields,
\* returns or raises: buf is np_examples, pos the upstream position.
RECURSIVE RunLoop(_, _, _, _)
RunLoop(src, n, buf, pos) ==
    IF pos >= Len(src)
    THEN [gen |-> "exhausted", buf |-> buf, pos |-> pos, out |-> NotCalled]
    ELSE LET buf2 == Append(buf, src[pos + 1])
         IN IF Len(buf2) = n
            THEN LET r == stack_np_examples_into_batch(buf2)
                 IN [gen |-> IF IsOk(r) THEN "suspended" ELSE "raised",
                     buf |-> buf2, pos |-> pos + 1, out |-> r]
            ELSE RunLoop(src, n, buf2, pos + 1)

\* Pull without line 209: the buffer is not emptied after a yield.
PullKeepsBuffer ==
    /\ datapipe = "MergeNumpyExamplesToBatch"
    /\ gen \in {"created", "suspended"}
    /\ LET r == RunLoop(source_datapipe, n_examples_per_batch, np_examples, src_pos)
       IN /\ gen' = r.gen
          /\ np_examples' = r.buf
          /\ src_pos' = r.pos
          /\ emitted' = IF r.gen = "suspended" THEN Append(emitted, r.out.val)
                        ELSE emitted
    /\ UNCHANGED <<n_examples_per_batch, source_datapipe>>
    /\ UNCHANGED fnVars
    /\ UNCHANGED <<extVars, select_dp, datapipe>>

\* Pull of a datapipe that refuses a non-positive n_examples_per_batch
\* before it takes anything from the upstream.
PullValidates ==
    /\ datapipe = "MergeNumpyExamplesToBatch"
    /\ gen \in {"created", "suspended"}
    /\ LET r == IF n_examples_per_batch <= 0
                THEN [gen |-> "raised", buf |-> np_examples, pos |-> src_pos,
                      out |-> Raise("ValueError")]
                ELSE RunLoop(source_datapipe, n_examples_per_batch,
                             IF gen = "suspended" THEN <<>> ELSE np_examples, src_pos)
       IN /\ gen' = r.gen
          /\ np_examples' = r.buf
          /\ src_pos' = r.pos
          /\ emitted' = IF r.gen = "suspended" THEN Append(emitted, r.out.val)
                        ELSE emitted
    /\ UNCHANGED <<n_examples_per_batch, source_datapipe>>
    /\ UNCHANGED fnVars
    /\ UNCHANGED <<extVars, select_dp, datapipe>>

\* next(it): the generator runs from where it stands (its start, or the
\* yield of line 208, after which line 209 empties the buffer) to its next
\* yield, its end or an exception.
Pull ==
    /\ datapipe = "MergeNumpyExamplesToBatch"
    /\ gen \in {"created", "suspended"}
    /\ LET r == RunLoop(source_datapipe, n_examples_per_batch,
                        IF gen = "suspended" THEN <<>> ELSE np_examples, src_pos)
       IN /\ gen' = r.gen
          /\ np_examples' = r.buf
          /\ src_pos' = r.pos
          /\ emitted' = IF r.gen = "suspended" THEN Append(emitted, r.out.val)
                        ELSE emitted
    /\ UNCHANGED <<n_examples_per_batch, source_datapipe>>
    /\ UNCHANGED fnVars
    /\ UNCHANGED <<extVars, select_dp, datapipe>>

\* next(it) that starts the loop of MergeNumpyBatchIterDataPipe again behind
\* the item whose stack raised.
PullResumes ==
    /\ gen \in {"exhausted", "raised"}
    /\ IF gen = "raised" /\ datapipe = "MergeNumpyBatch" /\ src_pos < Len(source_datapipe)
       THEN LET r == stack_np_examples_into_batch(source_datapipe[src_pos + 1])
            IN /\ gen' = IF IsOk(r) THEN "suspended" ELSE "raised"
               /\ src_pos' = src_pos + 1
               /\ emitted' = IF IsOk(r) THEN Append(emitted, r.val) ELSE emitted
               /\ UNCHANGED <<dict_list, batch, stacked, samples, pc, n_examples_per_batch,
                              source_datapipe, np_examples, source_dp, forecast_duration,
                              sample_period_duration, num_future_timesteps, select_dp,
                              datapipe>>
       ELSE UNCHANGED vars

\* next(it) on a generator that has returned or raised: StopIteration,
\* nothing changes.
PullFinished ==
    /\ gen \in {"exhausted", "raised"}
    /\ UNCHANGED vars

\* iter(datapipe) whose generator goes on with the buffer of the one before.
IterKeepsBuffer ==
    /\ gen \in {"suspended", "exhausted", "raised"}
    /\ gen' = "created"
    /\ src_pos' = 0
    /\ emitted' = <<>>
    /\ UNCHANGED <<n_examples_per_batch, source_datapipe, np_examples>>
    /\ UNCHANGED fnVars
    /\ UNCHANGED <<extVars, select_dp, datapipe>>

\* iter(datapipe) again: a new generator over the upstream from its start.
Iter ==
    /\ gen \in {"suspended", "exhausted", "raised"}
    /\ gen' = "created"
    /\ src_pos' = 0
    /\ np_examples' = <<>>
    /\ emitted' = <<>>
    /\ UNCHANGED <<n_examples_per_batch, source_datapipe>>
    /\ UNCHANGED fnVars
    /\ UNCHANGED <<extVars, select_dp, datapipe>>

NextDp == Pull \/ PullFinished \/ Iter

SpecDp == InitDp /\ [][NextDp]_vars

(***************************************************************************)
(* ExtendTimestepsToFutureIterDataPipe                                     *)
(*   ocf_datapipes/transform/numpy/extend_timestamps_to_future.py          *)
(* Durations and timestamps are whole seconds.                             *)
(***************************************************************************)
Abs(x) == IF x < 0 THEN -x ELSE x

\* int(a / b) for b # 0: true division, then truncation toward zero.
IntOfTrueDiv(a, b) ==
    LET q == Abs(a) \div Abs(b)
    IN IF (a < 0) = (b < 0) THEN q ELSE -q

\* list(a): the entries of a along its first axis; a 0-d array cannot be
\* iterated.
NpList(a) ==
    IF a.shape = <<>> THEN Raise("TypeError")
    ELSE Ok([i \in 1..a.shape[1] |-> NpIndexValue(a, i - 1)])

\* Elementwise a - b, abs(a) and a + b of arrays of one shape.
NpSub(a, b) == [shape |-> a.shape, data |-> [i \in DOMAIN a.data |-> a.data[i] - b.data[i]]]
NpAbs(a) == [shape |-> a.shape, data |-> [i \in DOMAIN a.data |-> Abs(a.data[i])]]
NpAdd(a, b) == [shape |-> a.shape, data |-> [i \in DOMAIN a.data |-> a.data[i] + b.data[i]]]

\* np.asarray(times, dtype=np.float64) of a nonempty list of arrays of one
\* shape: a new array of element type float64.  Whole numbers of seconds are
\* represented exactly.
NpAsarrayFloat64(times) ==
    [shape |-> NpStackValue(times).shape,
     data |-> NpStackValue(times).data,
     dtype |-> "float64"]

\* Lines 30-31: for future_step in range(n): times.append(times[-1] + timestep_diff)
RECURSIVE AppendFuture(_, _, _)
AppendFuture(times, timestep_diff, n) ==
    IF n <= 0 THEN times
    ELSE AppendFuture(Append(times, NpAdd(times[Len(times)], timestep_diff)),
                      timestep_diff, n - 1)

\* AppendFuture stepping by the signed difference of the last two entries.
ExtendTimesSigned(value, n) ==
    LET l == NpList(value)
    IN IF IsRaise(l) THEN l
       ELSE IF Len(l.val) < 2 THEN Raise("IndexError")
       ELSE LET times == l.val
                timestep_diff == NpSub(times[Len(times)], times[Len(times) - 1])
            IN Ok(NpAsarrayFloat64(AppendFuture(times, timestep_diff, n)))

\* Lines 27-33 for one time field.
ExtendTimes(value, n) ==
    LET l == NpList(value)
    IN IF IsRaise(l) THEN l
       ELSE IF Len(l.val) < 2 THEN Raise("IndexError")      \* times[-2]
       ELSE LET times == l.val
                timestep_diff == NpAbs(NpSub(times[Len(times)], times[Len(times) - 1]))
            IN Ok(NpAsarrayFloat64(AppendFuture(times, timestep_diff, n)))

\* Lines 21-23: the keys of np_batch whose name ends with "time_utc", in order.
TimeDimKeys(np_batch) ==
    SelectSeq(np_batch.keys, LAMBDA key : EndsWith(KeyName(key), <<"time", "utc">>))

\* Lines 25-34: all_time_dims after the loop over its first k keys.
RECURSIVE ExtendAll(_, _, _, _, _)
ExtendAll(np_batch, keys, n, k, all_time_dims) ==
    IF k > Len(keys) THEN Ok(all_time_dims)
    ELSE LET r == ExtendTimes(np_batch.val[keys[k]], n)
         IN IF IsRaise(r) THEN r
            ELSE ExtendAll(np_batch, keys, n, k + 1, DictSet(all_time_dims, keys[k], r.val))

\* np_batch.update(all_time_dims)
RECURSIVE DictUpdate(_, _, _)
DictUpdate(d, other, k) ==
    IF k > Len(other.keys) THEN d
    ELSE DictUpdate(DictSet(d, other.keys[k], other.val[other.keys[k]]), other, k + 1)

\* The loop body yielding all_time_dims itself instead of the updated np_batch.
ExtendBatchOnlyTimes(np_batch, n) ==
    LET r == ExtendAll(np_batch, TimeDimKeys(np_batch), n, 1, EmptyDict)
    IN IF IsRaise(r) THEN r ELSE Ok(r.val)

\* The body of the loop of __iter__ for one np_batch: the batch it yields.
ExtendBatch(np_batch, n) ==
    LET r == ExtendAll(np_batch, TimeDimKeys(np_batch), n, 1, EmptyDict)
    IN IF IsRaise(r) THEN r ELSE Ok(DictUpdate(np_batch, r.val, 1))

\* The upstream of the datapipe: examples whose time fields are 1-D arrays
\* (or, malformed, 0-d), and batches stacked from such examples, whose time
\* fields have shape (B, T).
TimeStamps == {0, 300, 600}
SeriesLengths == 0..3
Array1D(t) == [shape |-> <<Len(t)>>, data |-> t]
TimeValues ==
    {Array1D(t) : t \in UNION {[1..m -> TimeStamps] : m \in SeriesLengths}}
    \cup {Scalar(0)}
FewTimeValues == {Array1D(<<0, 300>>), Array1D(<<600, 0>>), Array1D(<<300>>)}

\* The dict {k1: v1, k2: v2, ...} of the pairs <<k1, v1>>, <<k2, v2>>, ...
MakeDict(pairs) ==
    [keys |-> [i \in DOMAIN pairs |-> pairs[i][1]],
     val |-> [k \in {pairs[i][1] : i \in DOMAIN pairs} |->
                pairs[CHOOSE i \in DOMAIN pairs : pairs[i][1] = k][2]]]

HrvExample(v) == MakeDict(<< <<BatchKey_hrvsatellite_time_utc, v>> >>)
TwoTimesExample(v, w) ==
    MakeDict(<< <<BatchKey_pv_time_utc, v>>, <<BatchKey_hrvsatellite_time_utc, w>> >>)
MixedExample(v) ==
    MakeDict(<< <<BatchKey_pv, Scalar(0)>>,
                <<BatchKey_hrvsatellite_time_utc, v>>,
                <<BatchKey_nwp,
                  MakeDict(<< <<"ukv",
                                MakeDict(<< <<NWPBatchKey_nwp_target_time_utc, v>> >>)>> >>)>> >>)

ExtExamples ==
    {HrvExample(v) : v \in TimeValues}
    \cup {TwoTimesExample(v, w) : v, w \in FewTimeValues}
    \cup {MixedExample(v) : v \in FewTimeValues}

\* What MergeNumpyExamplesToBatch yields upstream of the extension.
ExtBatches ==
    {stack_np_examples_into_batch(dl).val :
        dl \in {x \in UNION {[1..n -> {MixedExample(v) : v \in FewTimeValues}] : n \in 1..MaxLen} :
                    IsOk(stack_np_examples_into_batch(x))}}

ExtUpstreamLengths == 0..2
ExtUpstreams == UNION {[1..n -> ExtExamples \cup ExtBatches] : n \in ExtUpstreamLengths}

ForecastDurations == {-300, 0, 300, 900, 1000}
\* A sample_period_duration of 0 makes line 17 raise ZeroDivisionError: no
\* datapipe is built.
SamplePeriodDurations == {300, 600}

InitExt ==
    /\ source_dp \in ExtUpstreams
    /\ forecast_duration \in ForecastDurations
    /\ sample_period_duration \in SamplePeriodDurations
    /\ num_future_timesteps = IntOfTrueDiv(forecast_duration, sample_period_duration)
    /\ src_pos = 0
    /\ emitted = <<>>
    /\ gen = "created"
    /\ n_examples_per_batch = 1
    /\ source_datapipe = <<>>
    /\ np_examples = <<>>
    /\ dict_list = <<>>
    /\ batch = NoBatch
    /\ stacked = NotCalled
    /\ samples = NotCalled
    /\ pc = "idle"
    /\ SelIdle
    /\ datapipe = "ExtendTimestepsToFuture"

\* next(it): one np_batch is taken from the upstream and updated in place
\* (line 35), so what the upstream handed out is the object that is yielded.
ExtPull ==
    /\ datapipe = "ExtendTimestepsToFuture"
    /\ gen \in {"created", "suspended"}
    /\ IF src_pos >= Len(source_dp)
       THEN /\ gen' = "exhausted"
            /\ UNCHANGED <<src_pos, emitted, source_dp>>
       ELSE LET r == ExtendBatch(source_dp[src_pos + 1], num_future_timesteps)
            IN /\ src_pos' = src_pos + 1
               /\ gen' = IF IsOk(r) THEN "suspended" ELSE "raised"
               /\ emitted' = IF IsOk(r) THEN Append(emitted, r.val) ELSE emitted
               /\ source_dp' = IF IsOk(r) THEN [source_dp EXCEPT ![src_pos + 1] = r.val]
                               ELSE source_dp
    /\ UNCHANGED <<forecast_duration, sample_period_duration, num_future_timesteps>>
    /\ UNCHANGED <<n_examples_per_batch, source_datapipe, np_examples>>
    /\ UNCHANGED fnVars
    /\ UNCHANGED <<select_dp, datapipe>>

NextExt == ExtPull \/ PullFinished

SpecExt == InitExt /\ [][NextExt]_vars

(***************************************************************************)
(* MergeNumpyBatchIterDataPipe: every upstream item is a list of examples. *)
(***************************************************************************)
NwpExample(v) ==
    MakeDict(<< <<BatchKey_nwp,
                  MakeDict(<< <<"ukv", MakeDict(<< <<NWPBatchKey_nwp, v>> >>)>> >>)>> >>)

ListExamples == {PvExample(Scalar(0)), PvExample(Arange(1)), NwpExample(Scalar(0))}
ExamplesLists == UNION {[1..n -> ListExamples] : n \in 0..MaxLen}
ListUpstreamLengths == 0..3
ListUpstreams == UNION {[1..n -> ExamplesLists] : n \in ListUpstreamLengths}

InitList ==
    /\ datapipe = "MergeNumpyBatch"
    /\ source_datapipe \in ListUpstreams
    /\ src_pos = 0
    /\ emitted = <<>>
    /\ gen = "created"
    /\ n_examples_per_batch = 1     \* the class has no such attribute
    /\ np_examples = <<>>           \* nor a buffer
    /\ dict_list = <<>>
    /\ batch = NoBatch
    /\ stacked = NotCalled
    /\ samples = NotCalled
    /\ pc = "idle"
    /\ ExtIdle
    /\ SelIdle

\* One turn of the loop of lines 179-180 that stacks the first upstream item
\* again instead of the item just taken.
ListTurnStale(src, pos) ==
    LET r == stack_np_examples_into_batch(src[1])
    IN [gen |-> IF IsOk(r) THEN "suspended" ELSE "raised", pos |-> pos + 1, out |-> r]

\* One turn of the loop of lines 179-180: the item after position pos is
\* taken and stacked.
ListTurn(src, pos) ==
    LET examples_list == src[pos + 1]
        r == stack_np_examples_into_batch(examples_list)
    IN [gen |-> IF IsOk(r) THEN "suspended" ELSE "raised", pos |-> pos + 1, out |-> r]

\* next(it) on the generator of MergeNumpyBatchIterDataPipe.__iter__.
ListPull ==
    /\ datapipe = "MergeNumpyBatch"
    /\ gen \in {"created", "suspended"}
    /\ IF src_pos >= Len(source_datapipe)
       THEN /\ gen' = "exhausted"
            /\ UNCHANGED <<src_pos, emitted>>
       ELSE LET r == ListTurn(source_datapipe, src_pos)
            IN /\ gen' = r.gen
               /\ src_pos' = r.pos
               /\ emitted' = IF IsOk(r.out) THEN Append(emitted, r.out.val) ELSE emitted
    /\ UNCHANGED <<n_examples_per_batch, source_datapipe, np_examples>>
    /\ UNCHANGED fnVars
    /\ UNCHANGED <<extVars, select_dp, datapipe>>

NextList == ListPull \/ PullFinished \/ Iter

SpecList == InitList /\ [][NextList]_vars

\* Either of the two batchers.
InitBatchers == InitDp \/ InitList

NextBatchers == Pull \/ ListPull \/ PullFinished \/ Iter

SpecBatchers == InitBatchers /\ [][NextBatchers]_vars

(***************************************************************************)
(* SelectPVSystemsOnCapacityIterDataPipe                                   *)
(*   ocf_datapipes/select/select_pv_systems_on_capacity.py                 *)
(* The instance is the record of the attributes __init__ has set.  A       *)
(* dataset is the record of its variables; capacity_watt_power holds one   *)
(* capacity per PV system.  A threshold is a number or np.inf.             *)
(***************************************************************************)
Finite(x) == [inf |-> FALSE, v |-> x]
NpInf == [inf |-> TRUE, v |-> 0]
\* c < t and c > t for a capacity c and a threshold t
LessThan(c, t) == IF t.inf THEN TRUE ELSE c < t.v
GreaterThan(c, t) == IF t.inf THEN FALSE ELSE c > t.v

\* self.<name>
GetAttr(self, name) ==
    IF name \in DOMAIN self THEN Ok(self[name]) ELSE Raise("AttributeError")

\* Lines 30-32.
SelectInit(source_datapipe_arg, min_capacity_watts, max_capacity_watts) ==
    [source_datapipe |-> source_datapipe_arg,
     min_capacity_watts |-> min_capacity_watts,
     max_capaciity_watts |-> max_capacity_watts]

\* ds.where(~mask, drop=True): the systems whose mask is False.
WhereNotDrop(ds, mask) ==
    LET keep == {i \in DOMAIN mask : ~mask[i]}
        RECURSIVE Kept(_)
        Kept(i) == IF i = 0 THEN <<>>
                   ELSE IF i \in keep
                        THEN Append(Kept(i - 1), ds.capacity_watt_power[i])
                        ELSE Kept(i - 1)
    IN [capacity_watt_power |-> Kept(Len(ds.capacity_watt_power))]

\* Lines 36-39 for one ds.
SelectBody(self, ds) ==
    LET lo == GetAttr(self, "min_capacity_watts")
        hi == GetAttr(self, "max_capacity_watts")
    IN IF IsRaise(lo) THEN lo
       ELSE IF IsRaise(hi) THEN hi
       ELSE LET cap == ds.capacity_watt_power
                too_low == [i \in DOMAIN cap |-> LessThan(cap[i], lo.val)]
                too_high == [i \in DOMAIN cap |-> GreaterThan(cap[i], hi.val)]
                mask == [i \in DOMAIN cap |-> too_low[i] \/ too_high[i]]
            IN Ok(WhereNotDrop(ds, mask))

Capacities == {1, 5, 9}
SystemCounts == 0..2
Datasets == {[capacity_watt_power |-> c] : c \in UNION {[1..n -> Capacities] : n \in SystemCounts}}
SelUpstreamLengths == 0..2
SelUpstreams == UNION {[1..n -> Datasets] : n \in SelUpstreamLengths}
MinCapacities == {Finite(0), Finite(5)}
MaxCapacities == {Finite(5), Finite(9), NpInf}

InitSel ==
    /\ datapipe = "SelectPVSystemsOnCapacity"
    /\ \E up \in SelUpstreams, lo \in MinCapacities, hi \in MaxCapacities :
          select_dp = SelectInit(up, lo, hi)
    /\ src_pos = 0
    /\ emitted = <<>>
    /\ gen = "created"
    /\ n_examples_per_batch = 1
    /\ source_datapipe = <<>>
    /\ np_examples = <<>>
    /\ dict_list = <<>>
    /\ batch = NoBatch
    /\ stacked = NotCalled
    /\ samples = NotCalled
    /\ pc = "idle"
    /\ ExtIdle

\* next(it) on the generator of __iter__.
SelPull ==
    /\ datapipe = "SelectPVSystemsOnCapacity"
    /\ gen \in {"created", "suspended"}
    /\ IF src_pos >= Len(select_dp.source_datapipe)
       THEN /\ gen' = "exhausted"
            /\ UNCHANGED <<src_pos, emitted>>
       ELSE LET r == SelectBody(select_dp, select_dp.source_datapipe[src_pos + 1])
            IN /\ src_pos' = src_pos + 1
               /\ gen' = IF IsOk(r) THEN "suspended" ELSE "raised"
               /\ emitted' = IF IsOk(r) THEN Append(emitted, r.val) ELSE emitted
    /\ UNCHANGED <<n_examples_per_batch, source_datapipe, np_examples>>
    /\ UNCHANGED fnVars
    /\ UNCHANGED <<extVars, select_dp, datapipe>>

NextSel == SelPull \/ PullFinished

SpecSel == InitSel /\ [][NextSel]_vars

(***************************************************************************)
(* Vocabulary of the properties.                                           *)
(***************************************************************************)
\* The array-valued fields of a container: <<key>> at the primary level,
\* <<source, key>> under BatchKey.nwp.
Paths(d) ==
    {<<k>> : k \in (DOMAIN d.val) \ {BatchKey_nwp}}
    \cup (IF HasKey(d, BatchKey_nwp)
          THEN UNION {{<<s, nk>> : nk \in DOMAIN d.val[BatchKey_nwp].val[s].val}
                      : s \in DOMAIN d.val[BatchKey_nwp].val}
          ELSE {})
At(d, p) ==
    IF Len(p) = 1 THEN d.val[p[1]]
    ELSE d.val[BatchKey_nwp].val[p[1]].val[p[2]]
PathKey(p) == p[Len(p)]
ConstantPaths(d) == {p \in Paths(d) : key_is_constant(PathKey(p))}
VariablePaths(d) == {p \in Paths(d) : ~key_is_constant(PathKey(p))}

\* A container without the order of its keys: Python's dict equality.
Plain(d) ==
    [k \in DOMAIN d.val |->
        IF k = BatchKey_nwp
        THEN [s \in DOMAIN d.val[k].val |-> d.val[k].val[s].val]
        ELSE d.val[k]]
DictEq(d, e) == Plain(d) = Plain(e)
ListEq(xs, ys) ==
    /\ Len(xs) = Len(ys)
    /\ \A j \in DOMAIN xs : DictEq(xs[j], ys[j])

StackCalled == pc \in {"stacked", "unstacked"}
UnstackCalled == pc \in {"unstacked", "split"}

\* I1 and I2 of the data model: one key set, one shape per variable key.
SameKeySets(dl) ==
    \A j \in DOMAIN dl :
        /\ DOMAIN Plain(dl[j]) = DOMAIN Plain(dl[1])
        /\ Paths(dl[j]) = Paths(dl[1])
        /\ HasKey(dl[1], BatchKey_nwp) =>
              DOMAIN dl[j].val[BatchKey_nwp].val = DOMAIN dl[1].val[BatchKey_nwp].val
SameShapes(dl) ==
    \A j \in DOMAIN dl : \A p \in VariablePaths(dl[1]) :
        At(dl[j], p).shape = At(dl[1], p).shape
WellFormedList(dl) == dl # <<>> /\ SameKeySets(dl) /\ SameShapes(dl)

\* The inputs the repository's converters produce: an example has a variable
\* field, a nwp mapping has a source, every source carries the same secondary
\* keys, a variable one among them, and a constant key holds the same value
\* in every example.
UniformList(dl) ==
    /\ VariablePaths(dl[1]) # {}
    /\ HasKey(dl[1], BatchKey_nwp) =>
          \E s \in DOMAIN dl[1].val[BatchKey_nwp].val : <<s, NWPBatchKey_nwp>> \in Paths(dl[1])
    /\ HasKey(dl[1], BatchKey_nwp) =>
          LET nwp == dl[1].val[BatchKey_nwp]
          IN /\ nwp.keys # <<>>
             /\ \A s \in DOMAIN nwp.val : DOMAIN nwp.val[s].val = DOMAIN nwp.val[nwp.keys[1]].val
    /\ \A j \in DOMAIN dl : \A p \in ConstantPaths(dl[1]) : At(dl[j], p) = At(dl[1], p)

(***************************************************************************)
(* C1.  Round trip: for every nonempty list of examples with one key set   *)
(* and one shape per variable key, unstacking the stacked batch returns a  *)
(* list equal to the examples.                                             *)
(***************************************************************************)
C1_RoundTrip ==
    (StackCalled /\ WellFormedList(dict_list) /\ UniformList(dict_list)) =>
        /\ IsOk(stacked)
        /\ pc = "unstacked" => (IsOk(samples) /\ ListEq(samples.val, dict_list))

(***************************************************************************)
(* C2.  Accumulating batcher: when an iteration over an upstream of N      *)
(* examples ends by exhaustion with n_examples_per_batch = n >= 1, exactly *)
(* N div n batches were emitted, the k-th being the stack of the n         *)
(* examples (k-1)*n+1 .. k*n, and the last N mod n examples are left in    *)
(* the buffer, never emitted.                                              *)
(***************************************************************************)
UpstreamBlock(k) ==
    SubSeq(source_datapipe, (k - 1) * n_examples_per_batch + 1, k * n_examples_per_batch)

C2_FloorBatches ==
    (gen = "exhausted" /\ n_examples_per_batch >= 1) =>
        LET N == Len(source_datapipe)
            n == n_examples_per_batch
        IN /\ src_pos = N
           /\ Len(emitted) = N \div n
           /\ \A k \in DOMAIN emitted :
                 /\ emitted[k] = stack_np_examples_into_batch(UpstreamBlock(k)).val
                 /\ emitted[k].val[BatchKey_pv].shape[1] = n
           /\ np_examples = SubSeq(source_datapipe, N - (N % n) + 1, N)

\* The case of the specification: 10 examples, 4 per batch, 2 batches, 2 left over.
C2_Witness ==
    /\ gen = "exhausted"
    /\ Len(source_datapipe) = 10
    /\ n_examples_per_batch = 4
    /\ Len(emitted) = 2
    /\ Len(np_examples) = 2

(***************************************************************************)
(* C3.  Constant-key pass-through on stack: in the batch the stack         *)
(* returns, every constant key, primary or nested, holds exactly the first *)
(* example's value for it, whatever the other examples hold; every         *)
(* constant primary key of the first example is in the batch.              *)
(***************************************************************************)
C3_ConstantFromFirst ==
    (StackCalled /\ IsOk(stacked)) =>
        /\ \A p \in ConstantPaths(stacked.val) :
              /\ p \in Paths(dict_list[1])
              /\ At(stacked.val, p) = At(dict_list[1], p)
        /\ \A p \in ConstantPaths(dict_list[1]) : Len(p) = 1 => p \in Paths(stacked.val)

\* A stack of examples that differ in a constant primary key and in a
\* constant secondary key.
C3_Witness ==
    /\ StackCalled /\ IsOk(stacked)
    /\ Len(dict_list) >= 2
    /\ \E p, q \in ConstantPaths(stacked.val) :
          /\ Len(p) = 1 /\ Len(q) = 2
          /\ At(dict_list[2], p) # At(dict_list[1], p)
          /\ At(dict_list[2], q) # At(dict_list[1], q)

(***************************************************************************)
(* C4.  Shape mismatch.                                                    *)
(***************************************************************************)
\* Two examples carry values of different shapes under p.
MismatchAt(dl, p) ==
    \E i, j \in DOMAIN dl :
        /\ p \in Paths(dl[i]) /\ p \in Paths(dl[j])
        /\ At(dl[i], p).shape # At(dl[j], p).shape

\* The variable fields the loops of the stack reach: the primary keys of the
\* first example and, under every source, the secondary keys listed under
\* the first example's first source.
VisitedVariablePaths(dl) ==
    {p \in VariablePaths(dl[1]) :
        Len(p) = 2 =>
            LET nwp == dl[1].val[BatchKey_nwp]
            IN p[2] \in DOMAIN nwp.val[nwp.keys[1]].val}

\* Every source of the first example carries the secondary keys of the first
\* source, and a nwp mapping has a source.
SourcesAlike(dl) ==
    HasKey(dl[1], BatchKey_nwp) =>
        LET nwp == dl[1].val[BatchKey_nwp]
        IN /\ nwp.keys # <<>>
           /\ \A s \in DOMAIN nwp.val : DOMAIN nwp.val[s].val = DOMAIN nwp.val[nwp.keys[1]].val

\* C4 as claimed: when two examples carry values of different shapes under
\* the same variable key, the stack fails and returns no batch.
C4_Original ==
    (StackCalled /\ dict_list # <<>>
       /\ \E p \in VariablePaths(dict_list[1]) : MismatchAt(dict_list, p)) =>
        IsRaise(stacked)

\* C4 as amended: when two examples carry values of different shapes under
\* a variable key the stack reaches, the stack fails and returns no batch;
\* when the examples have no other defect the failure is the ValueError of
\* np.stack (there is no StackShapeError), and the key and the shapes are in
\* the debug log, not in the error.
C4_MismatchRaises ==
    (StackCalled /\ dict_list # <<>>
       /\ \E p \in VisitedVariablePaths(dict_list) : MismatchAt(dict_list, p)) =>
        /\ IsRaise(stacked)
        /\ batch = NoBatch
        /\ (SameKeySets(dict_list) /\ SourcesAlike(dict_list)) =>
              /\ stacked.exc = "ValueError"
              /\ \E p \in VisitedVariablePaths(dict_list) :
                    /\ MismatchAt(dict_list, p)
                    /\ stacked.log[1] = [level |-> "debug", key |-> PathKey(p)]
                    /\ stacked.log[2] =
                          [level |-> "debug",
                           shapes |-> [j \in DOMAIN dict_list |-> At(dict_list[j], p).shape]]

\* A stack that met a scalar and a 1-D array under one variable key.
C4_Witness ==
    /\ StackCalled /\ dict_list # <<>>
    /\ \E p \in VisitedVariablePaths(dict_list) : MismatchAt(dict_list, p)
    /\ IsRaise(stacked) /\ stacked.exc = "ValueError"

(***************************************************************************)
(* C5.  Stacking no examples.                                              *)
(***************************************************************************)
EmptyStackExc == stack_np_examples_into_batch(<<>>).exc

\* C5 as claimed: stacking an empty sequence fails with an error of its own
\* kind: no other failure of the stack or of the split is of that kind.
C5_Original ==
    /\ (StackCalled /\ dict_list = <<>>) => IsRaise(stacked)
    /\ (StackCalled /\ IsRaise(stacked) /\ stacked.exc = EmptyStackExc) => dict_list = <<>>
    /\ (UnstackCalled /\ IsRaise(samples)) => samples.exc # EmptyStackExc

\* C5 as amended: stacking an empty sequence produces no batch and fails
\* with the IndexError of dict_list[0], which is no dedicated error (the
\* stack of an example with an empty nwp mapping and a split that cannot
\* index a field raise IndexError too).
C5_EmptyRaisesIndexError ==
    (StackCalled /\ dict_list = <<>>) =>
        /\ stacked = Raise("IndexError")
        /\ batch = NoBatch

C5_Witness == pc = "stacked" /\ dict_list = <<>> /\ IsRaise(stacked)

(***************************************************************************)
(* C6.  Batch-size inference on split: for a batch whose variable fields   *)
(* all have the leading-axis length B of the first non-constant key (the   *)
(* first non-constant secondary key of the first source when that key is   *)
(* BatchKey.nwp), the split returns B examples, the i-th holding index i   *)
(* of every variable field.                                                *)
(***************************************************************************)
\* The variable fields of b agree on the batch size the code infers, and the
\* sources of b carry one key set.
ConsistentBatch(b) ==
    /\ IsOk(BatchSize(b))
    /\ SourcesAlike(<<b>>)
    /\ \A p \in VariablePaths(b) :
          At(b, p).shape # <<>> /\ At(b, p).shape[1] = BatchSize(b).val

C6_BatchSizeInference ==
    (UnstackCalled /\ ConsistentBatch(batch)) =>
        /\ IsOk(samples)
        /\ Len(samples.val) = BatchSize(batch).val
        /\ \A i \in DOMAIN samples.val : \A p \in VariablePaths(batch) :
              At(samples.val[i], p) = NpIndexValue(At(batch, p), i - 1)

(***************************************************************************)
(* C7.  Per-key rule on split, at the nested level: splitting a batch      *)
(* whose only primary key is BatchKey.nwp succeeds, and in every example i *)
(* each constant secondary key holds the batch's whole value (also a       *)
(* scalar, or one shorter than B) and each variable one holds index i.     *)
(***************************************************************************)
C7_PerKeyRule ==
    (UnstackCalled /\ ConsistentBatch(batch) /\ batch.keys = <<BatchKey_nwp>>) =>
        /\ IsOk(samples)
        /\ \A i \in DOMAIN samples.val :
              /\ \A p \in ConstantPaths(batch) : At(samples.val[i], p) = At(batch, p)
              /\ \A p \in VariablePaths(batch) :
                    At(samples.val[i], p) = NpIndexValue(At(batch, p), i - 1)

(***************************************************************************)
(* C8.  Splitting a batch without a variable field.                        *)
(***************************************************************************)
NoVariableExc == unstack_np_batch_into_examples(EmptyDict).exc

\* C8 as claimed: a batch in which every field is constant fails with an
\* error of its own kind, one that tells the caller that no field is
\* variable.
C8_Original ==
    /\ (UnstackCalled /\ VariablePaths(batch) = {}) => IsRaise(samples)
    /\ (UnstackCalled /\ IsRaise(samples) /\ samples.exc = NoVariableExc) =>
          VariablePaths(batch) = {}

\* C8 as amended: a batch in which every field is constant (also one whose
\* only non-constant primary key is BatchKey.nwp, every secondary key being
\* constant) yields no examples and fails with the StopIteration of next()
\* on the exhausted filter; there is no NoVariableFieldError, and the same
\* StopIteration is raised for a batch that has variable fields outside its
\* first nwp source.
C8_AllConstantStopIteration ==
    (UnstackCalled /\ VariablePaths(batch) = {}) => samples = Raise("StopIteration")

\* A split of a batch with a constant primary key and a nwp source holding
\* a constant secondary key only.
C8_Witness ==
    /\ UnstackCalled
    /\ VariablePaths(batch) = {}
    /\ \E p, q \in ConstantPaths(batch) : Len(p) = 1 /\ Len(q) = 2
    /\ IsRaise(samples)

(***************************************************************************)
(* C9.  Batch-size consistency on split.                                   *)
(***************************************************************************)
\* The leading-axis length of a field; a scalar has none (-1).
LeadingLen(a) == IF a.shape = <<>> THEN -1 ELSE a.shape[1]

\* C9 as claimed: the split never returns examples built from a batch whose
\* variable fields differ in leading-axis length.
C9_Original ==
    (UnstackCalled
       /\ \E p, q \in VariablePaths(batch) :
             LeadingLen(At(batch, p)) # LeadingLen(At(batch, q))) =>
        IsRaise(samples)

\* C9 as amended: the split validates nothing and has no
\* BatchSizeMismatchError.  It takes B from the first variable field and
\* indexes the fields at 0..B-1, so it returns examples only when every
\* field its loops reach (under every source, the secondary keys of the
\* first source) has a leading axis of length at least B; a longer variable
\* field is cut to its first B entries without an error.
C9_NoValidation ==
    /\ (UnstackCalled /\ IsRaise(samples)) =>
          samples.exc \in {"StopIteration", "IndexError", "KeyError", "NameError"}
    /\ (UnstackCalled /\ IsOk(samples)) =>
          /\ Len(samples.val) = BatchSize(batch).val
          /\ HasKey(batch, BatchKey_nwp) =>
                LET nwp == batch.val[BatchKey_nwp]
                IN \A s \in DOMAIN nwp.val : \A nk \in DOMAIN nwp.val[nwp.keys[1]].val :
                      /\ HasKey(nwp.val[s], nk)
                      /\ LeadingLen(nwp.val[s].val[nk]) >= Len(samples.val)

\* A split that returned examples from a batch whose variable fields
\* differ in length.
C9_Witness ==
    /\ UnstackCalled /\ IsOk(samples)
    /\ \E p, q \in VariablePaths(batch) :
          LeadingLen(At(batch, p)) < LeadingLen(At(batch, q))

(***************************************************************************)
(* C10.  Secondary-modality stacking.                                      *)
(***************************************************************************)
\* The column of a secondary field over the examples.
NwpValues(dl, s, nk) ==
    [j \in DOMAIN dl |-> dl[j].val[BatchKey_nwp].val[s].val[nk]]

\* C10 as claimed: for each source of the first example's nwp mapping the
\* batch holds exactly the secondary keys found under that same source in
\* the first example.
C10_Original ==
    (StackCalled /\ IsOk(stacked) /\ HasKey(dict_list[1], BatchKey_nwp)) =>
        LET first == dict_list[1].val[BatchKey_nwp]
            out == stacked.val.val[BatchKey_nwp]
        IN \A s \in DOMAIN first.val :
              /\ HasKey(out, s)
              /\ DOMAIN out.val[s].val = DOMAIN first.val[s].val

\* C10 as amended: the batch has the first example's sources, in order, and
\* under every one of them exactly the secondary keys found under the FIRST
\* source of the first example, in that order: a constant key with example
\* 0's value for that source, a variable key with the values of all the
\* examples stacked.  Keys that only a later source carries are left out of
\* the batch, and the stack fails (KeyError) when a source lacks a key of
\* the first source.
C10_KeysOfFirstSource ==
    (StackCalled /\ IsOk(stacked) /\ HasKey(dict_list[1], BatchKey_nwp)) =>
        LET first == dict_list[1].val[BatchKey_nwp]
            out == stacked.val.val[BatchKey_nwp]
            nks == first.val[first.keys[1]].keys
        IN /\ out.keys = first.keys
           /\ \A s \in DOMAIN first.val :
                 /\ out.val[s].keys = nks
                 /\ \A nk \in Range(nks) :
                       /\ HasKey(first.val[s], nk)
                       /\ out.val[s].val[nk] =
                             IF key_is_constant(nk) THEN first.val[s].val[nk]
                             ELSE NpStackValue(NwpValues(dict_list, s, nk))

\* A stack of two examples whose second source carries a key that the first
\* source does not: the batch has the stacked field of both sources and not
\* the extra key.
C10_Witness ==
    /\ StackCalled /\ IsOk(stacked) /\ Len(dict_list) = 2
    /\ HasKey(dict_list[1], BatchKey_nwp)
    /\ LET first == dict_list[1].val[BatchKey_nwp]
       IN /\ Len(first.keys) = 2
          /\ DOMAIN first.val[first.keys[1]].val = {NWPBatchKey_nwp}
          /\ DOMAIN first.val[first.keys[2]].val = SecondaryKeys
          /\ NwpValues(dict_list, first.keys[2], NWPBatchKey_nwp)[1]
                # NwpValues(dict_list, first.keys[2], NWPBatchKey_nwp)[2]

(***************************************************************************)
(* C11.  Forward time extension of a 1-D timestamp field, for a horizon    *)
(* >= 0 and a step > 0: in the batch the datapipe yields, every primary    *)
(* key whose name ends in "time_utc" and whose incoming value is a         *)
(* sequence t[0..m-1], m >= 2, holds t followed by exactly                 *)
(* k = floor(horizon / step) entries, the j-th being                       *)
(* t[m-1] + j * |t[m-1] - t[m-2]|; and a batch all of whose time fields    *)
(* are such sequences is yielded.                                          *)
(***************************************************************************)
\* The step of ExtPull that takes np_batch from the upstream.
ExtTakes(np_batch) ==
    /\ gen \in {"created", "suspended"}
    /\ src_pos < Len(source_dp)
    /\ src_pos' = src_pos + 1
    /\ np_batch = source_dp[src_pos + 1]
ExtYields == gen' = "suspended" /\ Len(emitted') = Len(emitted) + 1
Yielded == emitted'[Len(emitted')]

IsSeries(v) == Len(v.shape) = 1 /\ v.shape[1] >= 2

Extrapolated(t, k) ==
    t \o [j \in 1..k |-> t[Len(t)] + j * Abs(t[Len(t)] - t[Len(t) - 1])]

C11_Extension1D ==
    [][\A np_batch \in {source_dp[i] : i \in DOMAIN source_dp} :
        (ExtTakes(np_batch) /\ forecast_duration >= 0 /\ sample_period_duration > 0) =>
            LET k == forecast_duration \div sample_period_duration
                keys == TimeDimKeys(np_batch)
            IN /\ (\A i \in DOMAIN keys : IsSeries(np_batch.val[keys[i]])) => ExtYields
               /\ ExtYields =>
                    \A i \in DOMAIN keys :
                        LET v == np_batch.val[keys[i]]
                            out == Yielded.val[keys[i]]
                        IN IsSeries(v) =>
                              /\ out.shape = <<v.shape[1] + k>>
                              /\ out.data = Extrapolated(v.data, k)]_vars

\* The example of the specification: [0, 300, 600], step 300, horizon 900.
C11_Witness ==
    /\ forecast_duration = 900
    /\ sample_period_duration = 300
    /\ emitted # <<>>
    /\ emitted[1].val[BatchKey_hrvsatellite_time_utc].data = <<0, 300, 600, 900, 1200, 1500>>

(***************************************************************************)
(* C12.  Forward time extension of a batched timestamp field: for a batch  *)
(* stacked by the batcher, whose "time_utc" field has shape (B, T), the    *)
(* datapipe yields a batch in which the field keeps its B series, each     *)
(* of T + floor(horizon / step) timestamps, series b being the             *)
(* extrapolation of the incoming series b (B >= 2, T >= 2).                *)
(***************************************************************************)
\* B >= 2 series, as in the end-to-end test (B = 4): with B = 1 line 28 has
\* no times[-2].
IsBatchedSeries(v) == Len(v.shape) = 2 /\ v.shape[1] >= 2 /\ v.shape[2] >= 2

C12_BatchedExtension ==
    [][\A np_batch \in ExtBatches :
        (ExtTakes(np_batch) /\ forecast_duration >= 0 /\ sample_period_duration > 0) =>
            LET k == forecast_duration \div sample_period_duration
                v == np_batch.val[BatchKey_hrvsatellite_time_utc]
            IN IsBatchedSeries(v) =>
                  /\ ExtYields
                  /\ LET out == Yielded.val[BatchKey_hrvsatellite_time_utc]
                     IN /\ out.shape = <<v.shape[1], v.shape[2] + k>>
                        /\ \A b \in 0..(v.shape[1] - 1) :
                              NpIndexValue(out, b).data
                                  = Extrapolated(NpIndexValue(v, b).data, k)]_vars

(***************************************************************************)
(* C13.  Frame condition of the forward time extension: the batch the      *)
(* datapipe yields has the incoming batch's keys, in the same order, and   *)
(* every primary field whose key name does not end in "time_utc", the      *)
(* nested mapping under BatchKey.nwp and the time fields inside it         *)
(* included, has the value it had in the incoming batch.                   *)
(***************************************************************************)
C13_Frame ==
    [][\A np_batch \in {source_dp[i] : i \in DOMAIN source_dp} :
        (ExtTakes(np_batch) /\ ExtYields) =>
            /\ Yielded.keys = np_batch.keys
            /\ DOMAIN Yielded.val = DOMAIN np_batch.val
            /\ \A key \in DOMAIN np_batch.val :
                  ~EndsWith(KeyName(key), <<"time", "utc">>) =>
                      Yielded.val[key] = np_batch.val[key]]_vars

\* A batch with a nested time field was extended: the primary time field grew,
\* the nested one did not.
C13_Witness ==
    /\ num_future_timesteps > 0
    /\ emitted # <<>>
    /\ HasKey(emitted[1], BatchKey_nwp)
    /\ HasKey(emitted[1], BatchKey_pv)
    /\ emitted[1].val[BatchKey_hrvsatellite_time_utc].shape
         # emitted[1].val[BatchKey_nwp].val["ukv"].val[NWPBatchKey_nwp_target_time_utc].shape

(***************************************************************************)
(* C14.  Whole-list batcher: when an iteration over an upstream of M       *)
(* items, each a nonempty list of examples with one key set and one shape  *)
(* per variable key, has come to its end, exactly M batches were emitted;  *)
(* at every moment the k-th emitted batch is                               *)
(* stack_np_examples_into_batch of the k-th upstream item, and the         *)
(* datapipe holds no buffer.                                               *)
(***************************************************************************)
C14_OneBatchPerItem ==
    datapipe = "MergeNumpyBatch" =>
        /\ np_examples = <<>>
        /\ Len(emitted) <= src_pos
        /\ \A k \in DOMAIN emitted :
              Ok(emitted[k]) = stack_np_examples_into_batch(source_datapipe[k])
        /\ (\A k \in DOMAIN source_datapipe :
               WellFormedList(source_datapipe[k]) /\ UniformList(source_datapipe[k])) =>
              /\ gen # "raised"
              /\ Len(emitted) = src_pos
              /\ gen = "exhausted" => Len(emitted) = Len(source_datapipe)

\* Three different lists went through, one of them of nwp examples.
C14_Witness ==
    /\ datapipe = "MergeNumpyBatch"
    /\ gen = "exhausted"
    /\ Len(emitted) = 3
    /\ emitted[1] # emitted[2]
    /\ emitted[2] # emitted[3]
    /\ \E k \in 1..3 : HasKey(emitted[k], BatchKey_nwp)

(***************************************************************************)
(* C15.  Stacking failures in the two batchers.  An item is one upstream   *)
(* list (whole-list batcher) or one block of n_examples_per_batch          *)
(* consecutive upstream examples (accumulating batcher).                   *)
(***************************************************************************)
BatcherItemCount ==
    IF datapipe = "MergeNumpyBatch" THEN Len(source_datapipe)
    ELSE IF n_examples_per_batch >= 1 THEN Len(source_datapipe) \div n_examples_per_batch
    ELSE 0
BatcherItem(k) ==
    IF datapipe = "MergeNumpyBatch" THEN source_datapipe[k] ELSE UpstreamBlock(k)
ItemStacks(k) == IsOk(stack_np_examples_into_batch(BatcherItem(k)))

\* The batches of the items that stack, in upstream order.
RECURSIVE BatchesOfStackable(_)
BatchesOfStackable(k) ==
    IF k = 0 THEN <<>>
    ELSE IF ItemStacks(k)
         THEN Append(BatchesOfStackable(k - 1), stack_np_examples_into_batch(BatcherItem(k)).val)
         ELSE BatchesOfStackable(k - 1)

\* The claim as stated: a failing item is skipped, so that once the iterator
\* gives nothing more the caller has received the batch of every item that
\* stacks, those behind a failed item included.
C15_Original ==
    gen \in {"exhausted", "raised"} => emitted = BatchesOfStackable(BatcherItemCount)

\* As the code behaves: the exception ends the generator.  When it is raised
\* the batches of the items before the failing one have been emitted; every
\* further pull on the same iterator gives nothing and consumes nothing; only
\* a new iteration gives batches again, and it starts at the first upstream
\* element with an empty buffer.
RaisedAtItem(em, pos) ==
    LET j == Len(em) + 1
    IN /\ j <= BatcherItemCount
       /\ ~ItemStacks(j)
       /\ \A k \in 1..(j - 1) : Ok(em[k]) = stack_np_examples_into_batch(BatcherItem(k))
       /\ pos = IF datapipe = "MergeNumpyBatch" THEN j ELSE j * n_examples_per_batch

C15_FailureEndsIteration ==
    [][/\ gen' = "raised" => RaisedAtItem(emitted', src_pos')
       /\ (gen = "raised" /\ gen' # "created") =>
              UNCHANGED <<gen, emitted, src_pos, np_examples>>
       /\ gen' = "created" => (src_pos' = 0 /\ np_examples' = <<>> /\ emitted' = <<>>)]_vars

\* An item failed and an item behind it would have stacked.
C15_Witness ==
    /\ gen = "raised"
    /\ \E k \in (Len(emitted) + 2)..BatcherItemCount : ItemStacks(k)

(***************************************************************************)
(* C16.  A non-positive n_examples_per_batch in the accumulating batcher.  *)
(***************************************************************************)
\* The claim as stated: such a configuration is refused at construction, so
\* no datapipe configured with it ever consumes an upstream example.
C16_Original ==
    (datapipe = "MergeNumpyExamplesToBatch" /\ n_examples_per_batch <= 0) => src_pos = 0

\* As the code behaves: the datapipe is built and iterated without an error;
\* it takes every upstream example into its buffer and emits no batch.
C16_NonPositiveConsumesAll ==
    (datapipe = "MergeNumpyExamplesToBatch" /\ n_examples_per_batch <= 0) =>
        /\ gen \in {"created", "exhausted"}
        /\ emitted = <<>>
        /\ gen = "exhausted" =>
              /\ src_pos = Len(source_datapipe)
              /\ np_examples = source_datapipe

C16_Witness ==
    /\ datapipe = "MergeNumpyExamplesToBatch"
    /\ n_examples_per_batch <= 0
    /\ gen = "exhausted"
    /\ src_pos = MaxUpstream

(***************************************************************************)
(* C17.  The stack leaves its inputs unchanged: across a call of           *)
(* stack_np_examples_into_batch, whether it returns or fails, the list     *)
(* handed to it keeps its length and order and every example its keys,     *)
(* its nested structure and its values.                                    *)
(***************************************************************************)
C17_InputsUnchanged ==
    [][(pc = "start" /\ pc' = "stacked") => dict_list' = dict_list]_vars

\* A call on two examples has failed.
C17_Witness ==
    /\ pc = "stacked"
    /\ IsRaise(stacked)
    /\ Len(dict_list) = 2
    /\ dict_list[1] # dict_list[2]

(***************************************************************************)
(* C19.  Variable keys of a returned batch: for L >= 1 examples, every     *)
(* variable key of the batch, primary or nested under a source, holds an   *)
(* array whose leading axis has length L and whose slice i is example i's  *)
(* value for that key; every variable primary key of the first example is  *)
(* in the batch.  So all variable fields agree on the batch size L.        *)
(***************************************************************************)
C19_VariableStacked ==
    (StackCalled /\ IsOk(stacked)) =>
        LET b == stacked.val
            L == Len(dict_list)
        IN /\ L >= 1
           /\ \A k \in DOMAIN dict_list[1].val :
                 (k # BatchKey_nwp /\ ~key_is_constant(k)) => <<k>> \in VariablePaths(b)
           /\ \A p \in VariablePaths(b) :
                 /\ At(b, p).shape # <<>>
                 /\ At(b, p).shape[1] = L
                 /\ \A i \in 1..L : NpIndexValue(At(b, p), i - 1) = At(dict_list[i], p)

\* Two examples that differ in a field nested under the second source.
C19_Witness ==
    /\ StackCalled
    /\ IsOk(stacked)
    /\ Len(dict_list) = 2
    /\ <<"ecmwf", NWPBatchKey_nwp>> \in VariablePaths(stacked.val)
    /\ At(dict_list[1], <<"ecmwf", NWPBatchKey_nwp>>)
         # At(dict_list[2], <<"ecmwf", NWPBatchKey_nwp>>)

(***************************************************************************)
(* C20.  The keys of the batch come from the first example.                *)
(***************************************************************************)
NwpOf(d) == d.val[BatchKey_nwp]

\* A key, a source or a secondary key of the first example that example j
\* does not have.
LacksKeyOfFirst(dl, j) ==
    \/ \E k \in DOMAIN dl[1].val : ~HasKey(dl[j], k)
    \/ /\ HasKey(dl[1], BatchKey_nwp)
       /\ HasKey(dl[j], BatchKey_nwp)
       /\ \E s \in DOMAIN NwpOf(dl[1]).val :
             \/ ~HasKey(NwpOf(dl[j]), s)
             \/ \E nk \in DOMAIN NwpOf(dl[1]).val[s].val : ~HasKey(NwpOf(dl[j]).val[s], nk)

\* The claim as stated: at every level the keys and their order are those of
\* the first example, and a key of the first example that a later example
\* lacks makes the stack fail.
C20_Original ==
    StackCalled =>
        /\ IsOk(stacked) =>
              /\ stacked.val.keys = dict_list[1].keys
              /\ HasKey(dict_list[1], BatchKey_nwp) =>
                    /\ NwpOf(stacked.val).keys = NwpOf(dict_list[1]).keys
                    /\ \A s \in DOMAIN NwpOf(dict_list[1]).val :
                          NwpOf(stacked.val).val[s].keys = NwpOf(dict_list[1]).val[s].keys
        /\ (\E j \in DOMAIN dict_list : LacksKeyOfFirst(dict_list, j)) => IsRaise(stacked)

\* A key the loops of the stack look up in example j and do not find: a
\* primary key of the first example other than BatchKey.nwp, or under a
\* source of the first example a secondary key of its first source.
LacksReachedKey(dl, j) ==
    \/ \E k \in (DOMAIN dl[1].val) \ {BatchKey_nwp} : ~HasKey(dl[j], k)
    \/ /\ HasKey(dl[1], BatchKey_nwp)
       /\ NwpOf(dl[1]).keys # <<>>
       /\ \E s \in DOMAIN NwpOf(dl[1]).val :
             \E nk \in DOMAIN NwpOf(dl[1]).val[NwpOf(dl[1]).keys[1]].val :
                 IsRaise(NwpColumn(<<dl[j]>>, s, nk))

\* As the code behaves: the primary keys and the sources, in their order,
\* are those of the first example; the secondary keys of every source are
\* those of the first source of the first example; and the stack fails when
\* an example lacks a key that the loops look up.
C20_KeysOfFirstExample ==
    StackCalled =>
        /\ IsOk(stacked) =>
              /\ stacked.val.keys = dict_list[1].keys
              /\ HasKey(dict_list[1], BatchKey_nwp) =>
                    /\ NwpOf(stacked.val).keys = NwpOf(dict_list[1]).keys
                    /\ \A s \in DOMAIN NwpOf(dict_list[1]).val :
                          NwpOf(stacked.val).val[s].keys
                              = NwpOf(dict_list[1]).val[NwpOf(dict_list[1]).keys[1]].keys
        /\ (\E j \in DOMAIN dict_list : LacksReachedKey(dict_list, j)) => IsRaise(stacked)

\* The second example has a primary key more than the first and the same
\* keys in another order; the batch has the first example's.
C20_Witness ==
    /\ StackCalled
    /\ IsOk(stacked)
    /\ Len(dict_list) = 2
    /\ dict_list[1].keys = <<BatchKey_pv, BatchKey_nwp>>
    /\ dict_list[2].keys = <<BatchKey_pv_t0_idx, BatchKey_nwp, BatchKey_pv>>
    /\ stacked.val.keys = <<BatchKey_pv, BatchKey_nwp>>

(***************************************************************************)
(* C18.  SelectPVSystemsOnCapacity: for every dataset pulled from the      *)
(* upstream the iteration yields one dataset, which retains exactly the    *)
(* PV systems whose capacity c satisfies                                   *)
(* min_capacity_watts <= c <= max_capacity_watts, the constructor's        *)
(* arguments, in their order.                                              *)
(***************************************************************************)
RECURSIVE WithinCapacity(_, _, _)
WithinCapacity(cap, lo, hi) ==
    IF cap = <<>> THEN <<>>
    ELSE LET c == cap[Len(cap)]
             rest == WithinCapacity(SubSeq(cap, 1, Len(cap) - 1), lo, hi)
         IN IF ~LessThan(c, lo) /\ ~GreaterThan(c, hi) THEN Append(rest, c) ELSE rest

C18_RetainsWithinCapacity ==
    datapipe = "SelectPVSystemsOnCapacity" =>
        /\ gen # "raised"
        /\ Len(emitted) = src_pos
        /\ \A k \in DOMAIN emitted :
              emitted[k].capacity_watt_power
                  = WithinCapacity(select_dp.source_datapipe[k].capacity_watt_power,
                                   select_dp.min_capacity_watts,
                                   select_dp.max_capaciity_watts)

(***************************************************************************)
(* C21.  Buffer discipline of the accumulating batcher, for                *)
(* n_examples_per_batch = n >= 1.                                          *)
(***************************************************************************)
\* What the batches say of the upstream: the k-th emitted batch is the stack
\* of the upstream examples (k-1)*n+1 .. k*n in upstream order, slice i of it
\* being example (k-1)*n+i, and every emitted batch has taken exactly n
\* upstream elements.
BatchesInUpstreamOrder ==
    LET n == n_examples_per_batch
    IN /\ Len(emitted) * n <= src_pos
       /\ gen = "suspended" => src_pos = Len(emitted) * n
       /\ \A k \in DOMAIN emitted :
             /\ Ok(emitted[k]) = stack_np_examples_into_batch(UpstreamBlock(k))
             /\ \A i \in 1..n :
                   NpIndexValue(emitted[k].val[BatchKey_pv], i - 1)
                       = source_datapipe[(k - 1) * n + i].val[BatchKey_pv]

\* The claim as stated: between any two pulls the buffer holds fewer than n
\* examples.
C21_Original ==
    (datapipe = "MergeNumpyExamplesToBatch" /\ n_examples_per_batch >= 1) =>
        /\ Len(np_examples) < n_examples_per_batch
        /\ BatchesInUpstreamOrder
        /\ gen = "created" => np_examples = <<>>

\* As the code behaves: the buffer never holds more than n examples, but it
\* is emptied by line 209 only when the next pull resumes the generator, so
\* while the generator stands at the yield the buffer still holds the n
\* examples of the batch just emitted; it holds fewer than n at the start of
\* an iteration (none) and after the upstream is exhausted.
C21_BufferDiscipline ==
    (datapipe = "MergeNumpyExamplesToBatch" /\ n_examples_per_batch >= 1) =>
        /\ Len(np_examples) <= n_examples_per_batch
        /\ gen = "suspended" => np_examples = UpstreamBlock(Len(emitted))
        /\ gen = "raised" => np_examples = UpstreamBlock(Len(emitted) + 1)
        /\ gen = "exhausted" => Len(np_examples) < n_examples_per_batch
        /\ gen = "created" => (np_examples = <<>> /\ src_pos = 0 /\ emitted = <<>>)
        /\ BatchesInUpstreamOrder

\* The generator stands at its second yield, the buffer still full.
C21_Witness ==
    /\ datapipe = "MergeNumpyExamplesToBatch"
    /\ gen = "suspended"
    /\ n_examples_per_batch = 3
    /\ Len(emitted) = 2
    /\ Len(np_examples) = 3
    /\ emitted[1] # emitted[2]

====
